---- MODULE Spec2Model ----
(***************************************************************************)
(* A model of the TMP117 temperature-sensor driver (adafruit_tmp117.py).   *)
(*                                                                         *)
(* The device is a file of 16-bit registers behind a register-oriented bus *)
(* (read a 2-byte big-endian word from a register, write one to it).  The  *)
(* driver's methods and properties are the actions; each action models the *)
(* whole call, records the events it caused (bus reads, bus writes, the    *)
(* settle delay, assignments of the cached data-ready flag) in `trace`,    *)
(* and its outcome in `last`.  A bus transaction may fail; the input       *)
(* `fail` of an action names the transaction of the call that fails        *)
(* (0: none).                                                              *)
(*                                                                         *)
(* Temperatures are floats in the code.  The resolution is 2^-7 degC, so   *)
(* value / 0.0078125 is the exact product value * 128; a temperature is    *)
(* modelled as an integer number of ticks, one tick = 1/Sub of an LSB.     *)
(***************************************************************************)
EXTENDS Integers, Sequences, FiniteSets, TLC

VARIABLES
  regs,           \* the device's registers: address -> 16-bit word
  handle,         \* "none" before a successful construction, "ok" after
  data_ready,     \* self._data_ready: "unset", "None", "True" or "False"
  last,           \* the last driver call: its name, argument, outcome and return value
  trace,          \* the events of the last driver call, in order
  pack_overflow,  \* what the runtime's struct does with an integer that does not fit
  pc,             \* concurrent callers: each caller's position
  local           \* concurrent callers: each caller's argument and the word it read

vars == <<regs, handle, data_ready, last, trace, pack_overflow, pc, local>>

----------------------------------------------------------------------------
(* Bounds of the model *)

\* ticks per LSB: the sub-LSB granularity of the modelled float values
Sub == 4
\* how far around a boundary (in ticks) the setter inputs are drawn
Spread == 2
\* device-id values are drawn from 0x0117 - IdSpread .. 0x0117 + IdSpread
IdSpread == 2
\* enumerated codes offered to the setters: 0 .. MaxCode
MaxCode == 255

----------------------------------------------------------------------------
(* Register map and constants of the driver *)

_TEMP_RESULT == 0
_CONFIGURATION == 1
_T_HIGH_LIMIT == 2
_T_LOW_LIMIT == 3
_TEMP_OFFSET == 7
_DEVICE_ID == 15
_DEVICE_ID_VALUE == 279
\* the limit of the setters' range check, in degrees Celsius
RangeLimit == 256
\* 1 / _TMP117_RESOLUTION: LSBs per degree Celsius
LsbPerDegree == 128
\* time.sleep(1) of initialize, in seconds
SettleSeconds == 1

Registers ==
  {_TEMP_RESULT, _CONFIGURATION, _T_HIGH_LIMIT, _T_LOW_LIMIT, _TEMP_OFFSET, _DEVICE_ID}

\* a register holds 2 bytes
WordMod == 65536
Word == 0 .. WordMod - 1

----------------------------------------------------------------------------
(* Bit operations on naturals, as Python's &, | compute them *)

RECURSIVE BitAnd(_, _)
BitAnd(a, b) ==
  IF a = 0 \/ b = 0 THEN 0
  ELSE (a % 2) * (b % 2) + 2 * BitAnd(a \div 2, b \div 2)

RECURSIVE BitOr(_, _)
BitOr(a, b) ==
  IF a = 0 THEN b
  ELSE IF b = 0 THEN a
  ELSE (IF a % 2 = 1 \/ b % 2 = 1 THEN 1 ELSE 0) + 2 * BitOr(a \div 2, b \div 2)

RECURSIVE Pow2(_)
Pow2(n) == IF n = 0 THEN 1 ELSE 2 * Pow2(n - 1)

\* Python's int(x) of the quotient n / d (d > 0): truncation toward zero
TruncDiv(n, d) == IF n >= 0 THEN n \div d ELSE -((-n) \div d)

----------------------------------------------------------------------------
(* Register accessors (adafruit_register)                                  *)

\* struct ">h" / ">H": a 16-bit word read as a signed / unsigned integer
UnpackSigned(w) == IF w >= WordMod \div 2 THEN w - WordMod ELSE w
UnpackUnsigned(w) == w

\* struct.pack_into(">h", ...): whether the integer fits the format
FitsSigned(v) == v >= -(WordMod \div 2) /\ v <= WordMod \div 2 - 1
\* the two's-complement word of an integer (of its low 16 bits)
PackSigned(v) == v % WordMod

\* RWBits / ROBits (num_bits, register, lowest_bit): bit_mask
BitMask(f) == (Pow2(f.num_bits) - 1) * Pow2(f.lowest_bit)

\* ROBits.__get__ / RWBits.__get__: (reg & bit_mask) >> lowest_bit
BitsGet(w, f) == BitAnd(w, BitMask(f)) \div Pow2(f.lowest_bit)

\* RWBits.__set__ on the word just read: reg &= ~bit_mask; reg |= value << lowest_bit;
\* the low two bytes of the result are written back
BitsSet(w, f, value) ==
  BitOr(BitAnd(w, (WordMod - 1) - BitMask(f)), value * Pow2(f.lowest_bit)) % WordMod

\* RWBit.__set__ on the word just read: |= bit_mask when value is true, &= ~bit_mask otherwise
BitSet(w, f, value) ==
  IF value THEN BitOr(w, BitMask(f)) ELSE BitAnd(w, (WordMod - 1) - BitMask(f))

----------------------------------------------------------------------------
(* Bit-fields of the configuration register declared by the driver *)

_alert_status_data_ready == [num_bits |-> 3, lowest_bit |-> 13]
_mode == [num_bits |-> 2, lowest_bit |-> 10]
_raw_measurement_delay == [num_bits |-> 3, lowest_bit |-> 7]
\* variant (a plausible slip): the averaging field declared one bit too high, over the delay field
_raw_averaged_measurements_shifted == [num_bits |-> 2, lowest_bit |-> 6]
_raw_averaged_measurements == [num_bits |-> 2, lowest_bit |-> 5]
_soft_reset == [num_bits |-> 1, lowest_bit |-> 1]

----------------------------------------------------------------------------
(* Enumerated option sets: CV.add_values and CV.is_valid *)

\* the (name, value, string) of each tuple handed to add_values
AverageCount_values ==
  << <<"AVERAGE_1X", 0, "1">>, <<"AVERAGE_8X", 1, "8">>,
     <<"AVERAGE_32X", 2, "32">>, <<"AVERAGE_64X", 3, "64">> >>

MeasurementDelay_values ==
  << <<"DELAY_0_0015_S", 0, "0.00155">>, <<"DELAY_0_125_S", 1, "0.125">>,
     <<"DELAY_0_250_S", 2, "0.250">>, <<"DELAY_0_500_S", 3, "0.500">>,
     <<"DELAY_1_S", 4, "1">>, <<"DELAY_4_S", 5, "4">>,
     <<"DELAY_8_S", 6, "8">>, <<"DELAY_16_S", 7, "16">> >>

\* cls.string after add_values: value -> string, a later tuple overwriting an earlier one
add_values(value_tuples) ==
  [v \in {value_tuples[i][2] : i \in DOMAIN value_tuples} |->
     LET i == CHOOSE j \in DOMAIN value_tuples :
                /\ value_tuples[j][2] = v
                /\ \A k \in DOMAIN value_tuples : value_tuples[k][2] = v => k <= j
     IN value_tuples[i][3]]

AverageCount_string == add_values(AverageCount_values)
MeasurementDelay_string == add_values(MeasurementDelay_values)

\* variant (a plausible slip): a range test in place of the membership test, one code too wide
is_valid_upto(string, value) == value >= 0 /\ value <= Cardinality(DOMAIN string)

\* value in cls.string
is_valid(string, value) == value \in DOMAIN string

----------------------------------------------------------------------------
(* Execution of one driver call.                                           *)
(* A call threads a record through its statements:                         *)
(*   regs  the device registers,  flag  self._data_ready,                  *)
(*   tr    the events so far,     err   "ok" or the exception raised,      *)
(*   word  the word of the last bus read,  val  the value of the last      *)
(*   descriptor read,  ret  the value returned (a tuple; <<>> for none).   *)
(* A statement reached after an exception does nothing (the exception      *)
(* propagates: the driver has no try/except).                              *)

Ev(k, reg, val, ok) == [k |-> k, reg |-> reg, val |-> val, ok |-> ok, by |-> "main"]

NoRet == <<>>

Start(r, f) ==
  [regs |-> r, flag |-> f, tr |-> <<>>, err |-> "ok", word |-> 0, val |-> 0, ret |-> NoRet]

IsBus(e) == e.k \in {"read", "write"}

\* the number of bus transactions issued so far
NTx(tr) == Cardinality({i \in DOMAIN tr : IsBus(tr[i])})

\* Transport: read the 2-byte word of a register; transaction number `fail` fails
BusRead(s, reg, fail) ==
  IF s.err # "ok" THEN s
  ELSE IF NTx(s.tr) + 1 = fail
    THEN [s EXCEPT !.tr = Append(@, Ev("read", reg, 0, FALSE)), !.err = "OSError"]
    ELSE [s EXCEPT !.tr = Append(@, Ev("read", reg, s.regs[reg], TRUE)),
                   !.word = s.regs[reg]]

\* Transport: write a 2-byte word to a register; a failed write leaves the register alone
BusWrite(s, reg, w, fail) ==
  IF s.err # "ok" THEN s
  ELSE IF NTx(s.tr) + 1 = fail
    THEN [s EXCEPT !.tr = Append(@, Ev("write", reg, w, FALSE)), !.err = "OSError"]
    ELSE [s EXCEPT !.tr = Append(@, Ev("write", reg, w, TRUE)),
                   !.regs = [@ EXCEPT ![reg] = w]]

Raise(s, e) == IF s.err # "ok" THEN s ELSE [s EXCEPT !.err = e]

Return(s, v) == IF s.err # "ok" THEN s ELSE [s EXCEPT !.ret = v]

Value(s, v) == IF s.err # "ok" THEN s ELSE [s EXCEPT !.val = v]

\* self._data_ready = v
FlagCode(v) == CASE v = "True" -> 1 [] v = "False" -> 0 [] OTHER -> -1
SetFlag(s, v) ==
  IF s.err # "ok" THEN s
  ELSE [s EXCEPT !.flag = v, !.tr = Append(@, Ev("flag", -1, FlagCode(v), TRUE))]

\* time.sleep(seconds)
Sleep(s, seconds) ==
  IF s.err # "ok" THEN s
  ELSE [s EXCEPT !.tr = Append(@, Ev("sleep", -1, seconds, TRUE))]

\* descriptor read of a bit-field: one bus read, then shift and mask
Bits_get(s, f, fail) ==
  LET s1 == BusRead(s, _CONFIGURATION, fail)
  IN Value(s1, BitsGet(s1.word, f))

\* descriptor write of a multi-bit field: read, modify, write back
RWBits_set(s, f, value, fail) ==
  LET s1 == BusRead(s, _CONFIGURATION, fail)
  IN BusWrite(s1, _CONFIGURATION, BitsSet(s1.word, f, value), fail)

\* descriptor write of a one-bit field: read, modify, write back
RWBit_set(s, f, value, fail) ==
  LET s1 == BusRead(s, _CONFIGURATION, fail)
  IN BusWrite(s1, _CONFIGURATION, BitSet(s1.word, f, value), fail)

\* descriptor read of a whole signed register
UnaryStruct_get(s, reg, fail) ==
  LET s1 == BusRead(s, reg, fail)
  IN Value(s1, UnpackSigned(s1.word))

\* descriptor write of a whole signed register: pack, then one bus write.  Packing an
\* integer outside the format's range raises where struct checks the range ("raise")
\* and keeps the low 16 bits where it does not ("wrap").
UnaryStruct_set(s, reg, v, ovf, fail) ==
  IF s.err # "ok" THEN s
  ELSE IF ~FitsSigned(v) /\ ovf = "raise" THEN Raise(s, "OverflowError")
  ELSE BusWrite(s, reg, PackSigned(v), fail)

----------------------------------------------------------------------------
(* The driver: class TMP117 *)

\* variant (a plausible slip): the range check with inclusive comparisons, value >= 256 or value <= -256
OutOfRange_inclusive(value) ==
  \/ value >= RangeLimit * LsbPerDegree * Sub
  \/ value <= -(RangeLimit * LsbPerDegree * Sub)

\* the range check of the three setters, on a value in ticks
OutOfRange(value) ==
  \/ value > RangeLimit * LsbPerDegree * Sub
  \/ value < -(RangeLimit * LsbPerDegree * Sub)

\* int(value / _TMP117_RESOLUTION), on a value in ticks
Scaled(value) == TruncDiv(value, Sub)

\* raw * _TMP117_RESOLUTION, in ticks
Degrees(raw) == raw * Sub

reset(s, fail) == RWBit_set(s, _soft_reset, TRUE, fail)

\* variant (a plausible slip): initialize clearing the flag before the settle delay
initialize_flag_first(s) == Sleep(SetFlag(s, "False"), SettleSeconds)

initialize(s) == SetFlag(Sleep(s, SettleSeconds), "False")

\* variant (a plausible slip): __init__ resetting the device before it checks the identity
init_reset_first(s, fail) ==
  LET s0 == reset(s, fail)
      s1 == BusRead(s0, _DEVICE_ID, fail)
      s2 == Value(s1, UnpackUnsigned(s1.word))
  IN IF s2.err # "ok" THEN s2
     ELSE IF s2.val # _DEVICE_ID_VALUE THEN Raise(s2, "AttributeError")
     ELSE initialize(SetFlag(s2, "None"))

\* __init__: the identity check, then reset and initialize
init(s, fail) ==
  LET s1 == BusRead(s, _DEVICE_ID, fail)
      s2 == Value(s1, UnpackUnsigned(s1.word))
  IN IF s2.err # "ok" THEN s2
     ELSE IF s2.val # _DEVICE_ID_VALUE THEN Raise(s2, "AttributeError")
     ELSE initialize(reset(SetFlag(s2, "None"), fail))

temperature(s, fail) ==
  LET s1 == UnaryStruct_get(s, _TEMP_RESULT, fail)
  IN Return(s1, <<Degrees(s1.val)>>)

temperature_offset(s, fail) ==
  LET s1 == UnaryStruct_get(s, _TEMP_OFFSET, fail)
  IN Return(s1, <<Degrees(s1.val)>>)

set_temperature_offset(s, value, ovf, fail) ==
  IF OutOfRange(value) THEN Raise(s, "AttributeError")
  ELSE UnaryStruct_set(s, _TEMP_OFFSET, Scaled(value), ovf, fail)

high_limit(s, fail) ==
  LET s1 == UnaryStruct_get(s, _T_HIGH_LIMIT, fail)
  IN Return(s1, <<Degrees(s1.val)>>)

set_high_limit(s, value, ovf, fail) ==
  IF OutOfRange(value) THEN Raise(s, "AttributeError")
  ELSE UnaryStruct_set(s, _T_HIGH_LIMIT, Scaled(value), ovf, fail)

low_limit(s, fail) ==
  LET s1 == UnaryStruct_get(s, _T_LOW_LIMIT, fail)
  IN Return(s1, <<Degrees(s1.val)>>)

set_low_limit(s, value, ovf, fail) ==
  IF OutOfRange(value) THEN Raise(s, "AttributeError")
  ELSE UnaryStruct_set(s, _T_LOW_LIMIT, Scaled(value), ovf, fail)

\* variant (a plausible slip): the comparison binding tighter than &, bit & (status_flags > 0)
FlagSet_compare_first(bit, status_flags) ==
  BitAnd(bit, IF status_flags > 0 THEN 1 ELSE 0) > 0

\* bit & status_flags > 0: in Python & binds tighter than >
FlagSet(bit, status_flags) == BitAnd(bit, status_flags) > 0

\* variant (a plausible slip): alert_status clearing the cached flag before it reads the status
alert_status_flag_early(s, fail) ==
  LET s0 == SetFlag(s, "False")
      s1 == Bits_get(s0, _alert_status_data_ready, fail)
      s2 == SetFlag(s1, IF FlagSet(1, s1.val) THEN "True" ELSE "False")
  IN Return(s2, <<FlagSet(4, s1.val), FlagSet(2, s1.val)>>)

alert_status(s, fail) ==
  LET s1 == Bits_get(s, _alert_status_data_ready, fail)
      high_alert == FlagSet(4, s1.val)
      low_alert == FlagSet(2, s1.val)
      ready == FlagSet(1, s1.val)
      s2 == SetFlag(s1, IF ready THEN "True" ELSE "False")
  IN Return(s2, <<high_alert, low_alert>>)

averaged_measurements(s, fail) ==
  LET s1 == Bits_get(s, _raw_averaged_measurements, fail)
  IN Return(s1, <<s1.val>>)

set_averaged_measurements(s, value, fail) ==
  IF ~is_valid(AverageCount_string, value) THEN Raise(s, "AttributeError")
  ELSE RWBits_set(s, _raw_averaged_measurements, value, fail)

measurement_delay(s, fail) ==
  LET s1 == Bits_get(s, _raw_measurement_delay, fail)
  IN Return(s1, <<s1.val>>)

set_measurement_delay(s, value, fail) ==
  IF ~is_valid(MeasurementDelay_string, value) THEN Raise(s, "AttributeError")
  ELSE RWBits_set(s, _raw_measurement_delay, value, fail)

\* self._mode = value: the descriptor write of the mode field
set_mode(s, value, fail) == RWBits_set(s, _mode, value, fail)

----------------------------------------------------------------------------
(* Actions: one per driver call *)

Callers == {"A", "B"}

Commit(s, op, arg) ==
  /\ regs' = s.regs
  /\ data_ready' = s.flag
  /\ trace' = s.tr
  /\ last' = [op |-> op, arg |-> arg, result |-> s.err, ret |-> s.ret]

\* a method or property of a constructed driver
Call(s, op, arg) ==
  /\ handle = "ok"
  /\ Commit(s, op, arg)
  /\ UNCHANGED <<handle, pack_overflow, pc, local>>

Now == Start(regs, data_ready)

\* TMP117(i2c_bus): a new object, returned only when __init__ raises nothing
Construct(fail) ==
  /\ handle = "none"
  /\ LET s == init(Start(regs, "unset"), fail)
     IN /\ Commit(s, "__init__", 0)
        /\ handle' = IF s.err = "ok" THEN "ok" ELSE "none"
  /\ UNCHANGED <<pack_overflow, pc, local>>

Reset(fail) == Call(reset(Now, fail), "reset", 0)

Initialize == Call(initialize(Now), "initialize", 0)

GetTemperature(fail) == Call(temperature(Now, fail), "temperature", 0)

GetTemperatureOffset(fail) == Call(temperature_offset(Now, fail), "temperature_offset", 0)

SetTemperatureOffset(value, fail) ==
  Call(set_temperature_offset(Now, value, pack_overflow, fail), "set_temperature_offset", value)

GetHighLimit(fail) == Call(high_limit(Now, fail), "high_limit", 0)

SetHighLimit(value, fail) ==
  Call(set_high_limit(Now, value, pack_overflow, fail), "set_high_limit", value)

GetLowLimit(fail) == Call(low_limit(Now, fail), "low_limit", 0)

SetLowLimit(value, fail) ==
  Call(set_low_limit(Now, value, pack_overflow, fail), "set_low_limit", value)

AlertStatus(fail) == Call(alert_status(Now, fail), "alert_status", 0)

GetAveragedMeasurements(fail) ==
  Call(averaged_measurements(Now, fail), "averaged_measurements", 0)

SetAveragedMeasurements(value, fail) ==
  Call(set_averaged_measurements(Now, value, fail), "set_averaged_measurements", value)

GetMeasurementDelay(fail) == Call(measurement_delay(Now, fail), "measurement_delay", 0)

SetMeasurementDelay(value, fail) ==
  Call(set_measurement_delay(Now, value, fail), "set_measurement_delay", value)

SetMode(value, fail) == Call(set_mode(Now, value, fail), "set_mode", value)

----------------------------------------------------------------------------
(* Initial states *)

RegFile(id, cfg, high, low, offset, temp) ==
  [r \in Registers |->
     CASE r = _DEVICE_ID -> id
       [] r = _CONFIGURATION -> cfg
       [] r = _T_HIGH_LIMIT -> high
       [] r = _T_LOW_LIMIT -> low
       [] r = _TEMP_OFFSET -> offset
       [] OTHER -> temp]

NoCall == [op |-> "none", arg |-> 0, result |-> "ok", ret |-> NoRet]

Idle == [c \in Callers |-> "idle"]
NoLocal == [c \in Callers |-> [value |-> 0, word |-> 0]]

\* what the identity register may hold: the TMP117's id, its neighbours, and others
IdValues ==
  (_DEVICE_ID_VALUE - IdSpread .. _DEVICE_ID_VALUE + IdSpread) \cup {0, 5889, WordMod - 1}

\* configuration words: every status (bits 13-15) over the power-on word 0x0220,
\* over all lower bits set, and over all lower bits clear
CfgSamples == {st * 8192 + low : st \in 0 .. 7, low \in {544, 8191, 0}}

\* the same, with the status of the power-on word only
FewCfgSamples == {st * 8192 + 544 : st \in 0 .. 7} \cup {WordMod - 1, 0}

\* a temperature word: 25 degC
WarmWord == 25 * LsbPerDegree

\* a driver already constructed over the given registers
Constructed(r) ==
  /\ regs = r
  /\ handle = "ok"
  /\ data_ready = "False"
  /\ last = NoCall
  /\ trace = <<>>
  /\ pc = Idle
  /\ local = NoLocal

----------------------------------------------------------------------------
(* Spec: the life cycle of one driver on a bus whose transactions may fail *)

\* the longest call, __init__, issues three bus transactions
MaxFail == 3
Fails == 0 .. MaxFail

\* codes and values offered to the setters here: valid and invalid ones
FewCodes == {3, 8}
FewValues == {25 * LsbPerDegree * Sub + 1, RangeLimit * LsbPerDegree * Sub + 1}

Init ==
  /\ regs \in {RegFile(id, cfg, 0, 0, 0, WarmWord) : id \in IdValues, cfg \in FewCfgSamples}
  /\ handle = "none"
  /\ data_ready = "unset"
  /\ last = NoCall
  /\ trace = <<>>
  /\ pack_overflow = "raise"
  /\ pc = Idle
  /\ local = NoLocal

Next ==
  \E fail \in Fails :
    \/ Construct(fail)
    \/ Reset(fail)
    \/ Initialize
    \/ GetTemperature(fail)
    \/ AlertStatus(fail)
    \/ GetAveragedMeasurements(fail)
    \/ GetMeasurementDelay(fail)
    \/ GetTemperatureOffset(fail)
    \/ GetHighLimit(fail)
    \/ GetLowLimit(fail)
    \/ \E value \in FewCodes :
         \/ SetAveragedMeasurements(value, fail)
         \/ SetMeasurementDelay(value, fail)
    \/ \E value \in FewValues :
         \/ SetTemperatureOffset(value, fail)
         \/ SetHighLimit(value, fail)
         \/ SetLowLimit(value, fail)

Spec == Init /\ [][Next]_vars

----------------------------------------------------------------------------
(* SpecTemp: one call of a temperature setter, with values at and around   *)
(* the limits of the range check, followed by reads of the properties      *)

Limit == RangeLimit * LsbPerDegree * Sub

\* values in ticks: around -256 degC, around 0, around +256 degC, and +-255.99 degC
TempValues ==
  (-Limit - Spread .. -Limit + Spread) \cup (Limit - Spread .. Limit + Spread)
    \cup (-Sub - Spread .. Sub + Spread) \cup {-(Limit - Sub - 1), Limit - Sub - 1}

\* register words before the call: 0, 1, -1, the largest and the smallest
RawSamples == {0, 1, WordMod - 1, WordMod \div 2 - 1, WordMod \div 2}

Fresh == last.op = "none"

InitTemp ==
  /\ \E w \in RawSamples : Constructed(RegFile(_DEVICE_ID_VALUE, 544, w, w, w, w))
  /\ pack_overflow \in {"raise", "wrap"}

NextTemp ==
  \/ \E value \in TempValues :
       /\ Fresh
       /\ \/ SetTemperatureOffset(value, 0)
          \/ SetHighLimit(value, 0)
          \/ SetLowLimit(value, 0)
  \/ GetTemperatureOffset(0)
  \/ GetHighLimit(0)
  \/ GetLowLimit(0)

SpecTemp == InitTemp /\ [][NextTemp]_vars

----------------------------------------------------------------------------
(* SpecRoundTrip: every word of a temperature register is read through the *)
(* property and the value read is handed back to the property's setter     *)

Got(op) == last.op = op /\ last.result = "ok"

InitRoundTrip ==
  /\ \E w \in Word : Constructed(RegFile(_DEVICE_ID_VALUE, 544, w, w, w, w))
  /\ pack_overflow \in {"raise", "wrap"}

NextRoundTrip ==
  \/ Fresh /\ GetTemperatureOffset(0)
  \/ Fresh /\ GetHighLimit(0)
  \/ Fresh /\ GetLowLimit(0)
  \/ Got("temperature_offset") /\ SetTemperatureOffset(last.ret[1], 0)
  \/ Got("high_limit") /\ SetHighLimit(last.ret[1], 0)
  \/ Got("low_limit") /\ SetLowLimit(last.ret[1], 0)

SpecRoundTrip == InitRoundTrip /\ [][NextRoundTrip]_vars

----------------------------------------------------------------------------
(* SpecField: one write of a configuration bit-field over every word the   *)
(* configuration register can hold                                         *)

FieldValues(f) == 0 .. Pow2(f.num_bits) - 1

InitField ==
  /\ \E w \in Word : Constructed(RegFile(_DEVICE_ID_VALUE, w, 0, 0, 0, 0))
  /\ pack_overflow = "raise"

NextField ==
  /\ Fresh
  /\ \/ \E value \in FieldValues(_raw_averaged_measurements) :
          SetAveragedMeasurements(value, 0)
     \/ \E value \in FieldValues(_raw_measurement_delay) : SetMeasurementDelay(value, 0)
     \/ \E value \in FieldValues(_mode) : SetMode(value, 0)
     \/ Reset(0)

SpecField == InitField /\ [][NextField]_vars

----------------------------------------------------------------------------
(* SpecEnum: one call of an enumerated setter with every code 0 .. MaxCode *)

InitEnum ==
  /\ \E cfg \in CfgSamples : Constructed(RegFile(_DEVICE_ID_VALUE, cfg, 0, 0, 0, 0))
  /\ pack_overflow = "raise"

NextEnum ==
  /\ Fresh
  /\ \E value \in 0 .. MaxCode :
       \/ SetAveragedMeasurements(value, 0)
       \/ SetMeasurementDelay(value, 0)

SpecEnum == InitEnum /\ [][NextEnum]_vars

----------------------------------------------------------------------------
(* SpecConc: two callers share one driver without serialization.  Caller A *)
(* sets averaged_measurements and caller B sets measurement_delay; each    *)
(* setter is a bus read followed by a bus write, and the steps of the two  *)
(* callers interleave freely: no lock is held from the read to the write.  *)
(* (Whether the register library holds the bus lock across the two         *)
(* transactions is outside the driver's source; the driver takes none.)    *)

FieldOf(c) == IF c = "A" THEN _raw_averaged_measurements ELSE _raw_measurement_delay

\* variant (a plausible slip): the write-back computed from the register's word at the time of the write
WriteBack_current(read_word, current_word, f, value) == BitsSet(current_word, f, value)

\* the word a caller writes back, from the word it read and the register's word now
WriteBack(read_word, current_word, f, value) == BitsSet(read_word, f, value)

\* the first bus transaction of the setter: the read
ConcRead(c, value) ==
  /\ pc[c] = "idle"
  /\ LET s == BusRead(Now, _CONFIGURATION, 0)
     IN /\ local' = [local EXCEPT ![c] = [value |-> value, word |-> s.word]]
        /\ trace' = Append(trace, [s.tr[1] EXCEPT !.by = c])
  /\ pc' = [pc EXCEPT ![c] = "read"]
  /\ UNCHANGED <<regs, handle, data_ready, last, pack_overflow>>

\* the second bus transaction of the setter: the write
ConcWrite(c) ==
  /\ pc[c] = "read"
  /\ LET w == WriteBack(local[c].word, regs[_CONFIGURATION], FieldOf(c), local[c].value)
         s == BusWrite(Now, _CONFIGURATION, w, 0)
     IN /\ regs' = s.regs
        /\ trace' = Append(trace, [s.tr[1] EXCEPT !.by = c])
  /\ pc' = [pc EXCEPT ![c] = "done"]
  /\ UNCHANGED <<handle, data_ready, last, pack_overflow, local>>

InitConc ==
  /\ \E cfg \in CfgSamples : Constructed(RegFile(_DEVICE_ID_VALUE, cfg, 0, 0, 0, 0))
  /\ pack_overflow = "raise"

NextConc ==
  \/ \E value \in DOMAIN AverageCount_string : ConcRead("A", value)
  \/ \E value \in DOMAIN MeasurementDelay_string : ConcRead("B", value)
  \/ \E c \in Callers : ConcWrite(c)

SpecConc == InitConc /\ [][NextConc]_vars

----------------------------------------------------------------------------
(* Vocabulary of the properties *)

TempSetters == {"set_temperature_offset", "set_high_limit", "set_low_limit"}

\* the register behind a temperature property
RegOf(op) ==
  CASE op \in {"set_temperature_offset", "temperature_offset"} -> _TEMP_OFFSET
    [] op \in {"set_high_limit", "high_limit"} -> _T_HIGH_LIMIT
    [] OTHER -> _T_LOW_LIMIT

GetterOf(op) ==
  CASE op = "set_temperature_offset" -> "temperature_offset"
    [] op = "set_high_limit" -> "high_limit"
    [] OTHER -> "low_limit"

BusEvents(tr) == SelectSeq(tr, IsBus)

ReadOk(reg, w) == Ev("read", reg, w, TRUE)
WriteOk(reg, w) == Ev("write", reg, w, TRUE)

\* a word with the bits low .. low + n - 1 cleared
Outside(w, low, n) == (w % Pow2(low)) + (w \div Pow2(low + n)) * Pow2(low + n)
\* the bits low .. low + n - 1 of a word
Inside(w, low, n) == (w \div Pow2(low)) % Pow2(n)

----------------------------------------------------------------------------
(* C1 *)

\* the last call was a temperature setter and it was accepted: one bus write of the
\* scaled value to the property's register, which now holds it
AcceptedAndWritten ==
  /\ last.result = "ok"
  /\ trace = <<WriteOk(RegOf(last.op), PackSigned(TruncDiv(last.arg, Sub)))>>
  /\ regs[RegOf(last.op)] = PackSigned(TruncDiv(last.arg, Sub))

\* the last call was rejected as an invalid argument before any bus transaction
RejectedUnwritten == last.result = "AttributeError" /\ trace = <<>>

\* C1 (as claimed): each of the setters temperature_offset, high_limit and low_limit
\* accepts and writes every value v with -256 < v < 256, and rejects every value
\* v >= 256 or v <= -256 (exactly 256 and exactly -256 included) with an
\* invalid-argument error before any bus write, the register left unchanged.
C1_OpenIntervalClaim ==
  [][(last.op \in TempSetters)' =>
       IF -Limit < last'.arg /\ last'.arg < Limit
         THEN AcceptedAndWritten'
         ELSE RejectedUnwritten' /\ regs' = regs]_vars

----------------------------------------------------------------------------
(* C8 *)

\* C8 (as claimed): for every value v a temperature setter accepts, the raw word
\* written is v / 0.0078125 truncated toward zero, it is representable as a signed
\* 16-bit quantity, and a following get of the same property returns exactly that
\* raw word times 0.0078125.
C8_TruncatedRepresentableClaim ==
  /\ [](last.op \in TempSetters /\ last.result = "ok" =>
          /\ FitsSigned(TruncDiv(last.arg, Sub))
          /\ AcceptedAndWritten)
  /\ [][/\ last.op \in TempSetters
        /\ last.result = "ok"
        /\ last'.op = GetterOf(last.op)
        /\ last'.result = "ok"
        => last'.ret = <<TruncDiv(last.arg, Sub) * Sub>>]_vars

----------------------------------------------------------------------------
(* C6 *)

\* the word every temperature register held before the round trip: InitRoundTrip puts
\* it in the temperature result register too, which no call writes
OriginalRaw == UnpackSigned(regs[_TEMP_RESULT])

Abs(x) == IF x < 0 THEN -x ELSE x

\* C6: for every signed 16-bit raw value r held in the offset, high-limit or low-limit
\* register, the property reads r x 0.0078125, and handing that value back to the
\* same property's setter succeeds and leaves the register holding r' with
\* |r' - r| <= 1.
C6_RoundTripWithinOneLsb ==
  /\ last.op \in {"temperature_offset", "high_limit", "low_limit"} =>
       /\ last.result = "ok"
       /\ last.ret = <<OriginalRaw * Sub>>
  /\ last.op \in TempSetters =>
       /\ last.arg = OriginalRaw * Sub
       /\ last.result = "ok"
       /\ Abs(UnpackSigned(regs[RegOf(last.op)]) - OriginalRaw) <= 1

\* the round trip of the smallest raw value, -32768 (-256 degC), through high_limit
C6_Witness ==
  /\ last.op = "set_high_limit"
  /\ last.result = "ok"
  /\ OriginalRaw = -(WordMod \div 2)
  /\ regs[_T_HIGH_LIMIT] = WordMod \div 2

----------------------------------------------------------------------------
(* C2 *)

\* the last call, an enumerated setter of the field at bits low .. low + n - 1, wrote
\* its code: one read and one write of the configuration register, the field now
\* holding the code
CodeWritten(low, n) ==
  /\ last.result = "ok"
  /\ Len(trace) = 2
  /\ trace[1] = ReadOk(_CONFIGURATION, trace[1].val)
  /\ trace[2] = WriteOk(_CONFIGURATION, regs[_CONFIGURATION])
  /\ Inside(regs[_CONFIGURATION], low, n) = last.arg

\* C2: setting averaged_measurements succeeds and writes the code iff the code is in
\* {0,1,2,3}, and setting measurement_delay succeeds and writes the code iff the code
\* is in 0..7; for any other code in 0..255 the setter fails with an invalid-argument
\* error, issues no bus read or write, and leaves the configuration register unchanged.
C2_EnumeratedCodes ==
  [][/\ (last.op = "set_averaged_measurements")' =>
          IF last'.arg \in {0, 1, 2, 3}
            THEN CodeWritten(5, 2)'
            ELSE RejectedUnwritten' /\ regs' = regs
     /\ (last.op = "set_measurement_delay")' =>
          IF last'.arg \in 0 .. 7
            THEN CodeWritten(7, 3)'
            ELSE RejectedUnwritten' /\ regs' = regs]_vars

\* an averaging code just past the set (4) and a delay code just past the set (8)
\* are offered; here the averaging code 4 was rejected over the word 0xFFFF
C2_Witness ==
  /\ last.op = "set_averaged_measurements"
  /\ last.arg = 4
  /\ last.result = "AttributeError"
  /\ regs[_CONFIGURATION] = WordMod - 1

----------------------------------------------------------------------------
(* C3 *)

\* C3: if the device-id read of the construction returns any value other than 0x0117,
\* construction fails with an unrecognized-device error, no handle is returned, and
\* no bus write (so no soft-reset write) and no settle delay has been performed: the
\* identity read is the only event.
C3_IdentityMismatch ==
  /\ last.op = "__init__"
  /\ Len(trace) >= 1
  /\ trace[1].ok
  /\ regs[_DEVICE_ID] # 279
  => /\ last.result = "AttributeError"
     /\ handle = "none"
     /\ trace = <<ReadOk(_DEVICE_ID, regs[_DEVICE_ID])>>

\* construction over a device whose identity register reads 0x0116
C3_Witness ==
  /\ last.op = "__init__"
  /\ last.result = "AttributeError"
  /\ regs[_DEVICE_ID] = 278
  /\ handle = "none"

----------------------------------------------------------------------------
(* C9 *)

\* the events the claim orders: everything but the assignment of None to the flag
Ordered(tr) == SelectSeq(tr, LAMBDA e : ~(e.k = "flag" /\ e.val = -1))

\* a word with bit 1 set
WithBit1(w) == IF (w \div 2) % 2 = 1 THEN w ELSE w + 2

\* C9: on every successful construction the events occur in this order: the device-id
\* read, the read-modify-write of the configuration register that sets bit 1, the
\* fixed settle delay, the cached data-ready flag set to False; no other register is
\* written, the soft-reset bit is not read back, and the flag is False on return.
C9_ConstructionOrder ==
  last.op = "__init__" /\ last.result = "ok" =>
    LET tr == Ordered(trace)
    IN /\ Len(tr) = 5
       /\ tr[1] = ReadOk(_DEVICE_ID, 279)
       /\ tr[2] = ReadOk(_CONFIGURATION, tr[2].val)
       /\ tr[3] = WriteOk(_CONFIGURATION, WithBit1(tr[2].val))
       /\ tr[4] = Ev("sleep", -1, 1, TRUE)
       /\ tr[5] = Ev("flag", -1, 0, TRUE)
       /\ data_ready = "False"
       /\ handle = "ok"

\* a construction over the power-on configuration word 0x0220: 0x0222 was written
C9_Witness ==
  /\ last.op = "__init__"
  /\ last.result = "ok"
  /\ handle = "ok"
  /\ Len(trace) = 6
  /\ trace[3].val = 544
  /\ trace[4].val = 546

----------------------------------------------------------------------------
(* C5 *)

\* the 3-bit status the device reports: bits 13-15 of the configuration register
Status == regs[_CONFIGURATION] \div 8192

\* C5: for every 3-bit status s reported by the device, one call of alert_status
\* performs exactly one read of the status field, returns high_alert = (bit 2 of s)
\* and low_alert = (bit 1 of s), and stores data_ready = (bit 0 of s).
C5_AlertStatusDecoding ==
  last.op = "alert_status" /\ last.result = "ok" =>
    /\ BusEvents(trace) = <<ReadOk(_CONFIGURATION, regs[_CONFIGURATION])>>
    /\ last.ret = <<Status \div 4 = 1, (Status \div 2) % 2 = 1>>
    /\ data_ready = IF Status % 2 = 1 THEN "True" ELSE "False"

\* the status 0b101: (True, False), data_ready True
C5_Witness ==
  /\ last.op = "alert_status"
  /\ Status = 5
  /\ last.ret = <<TRUE, FALSE>>
  /\ data_ready = "True"

----------------------------------------------------------------------------
(* C7 *)

\* C7: if a bus read or write fails during a driver call (construction, reset, a
\* property get or set), the call ends at once with the transport error: the failed
\* transaction is the call's last event (it is not retried and nothing follows it),
\* and the cached data-ready flag is not changed by the call (a construction that
\* fails returns no handle whose flag could be read).
C7_TransportFailure ==
  [][\A i \in DOMAIN trace' :
       ~trace'[i].ok =>
         /\ i = Len(trace')
         /\ last'.result = "OSError"
         /\ last'.ret = NoRet
         /\ \A j \in 1 .. i - 1 : trace'[j].ok
         /\ IF last'.op = "__init__" THEN handle' = "none" ELSE data_ready' = data_ready
     ]_vars

\* alert_status failed on its read while the cached flag was True: it still is
C7_Witness ==
  /\ last.op = "alert_status"
  /\ last.result = "OSError"
  /\ trace = <<Ev("read", _CONFIGURATION, 0, FALSE)>>
  /\ data_ready = "True"

----------------------------------------------------------------------------
(* C4 *)

\* the last call read the configuration word, wrote it back changed only in the bits
\* low .. low + n - 1, and the register now holds the word written
OnlyFieldChanged(low, n) ==
  /\ last.result = "ok"
  /\ Len(trace) = 2
  /\ trace[1] = ReadOk(_CONFIGURATION, trace[1].val)
  /\ trace[2] = WriteOk(_CONFIGURATION, trace[2].val)
  /\ Outside(trace[2].val, low, n) = Outside(trace[1].val, low, n)
  /\ regs[_CONFIGURATION] = trace[2].val

\* every declared field other than the one at `low` reads as it did in the word read
SiblingsKeep(low) ==
  \A f \in {_alert_status_data_ready, _mode, _raw_measurement_delay,
            _raw_averaged_measurements, _soft_reset} :
    f.lowest_bit # low =>
      Inside(regs[_CONFIGURATION], f.lowest_bit, f.num_bits)
        = Inside(trace[1].val, f.lowest_bit, f.num_bits)

\* C4: for every 16-bit value of the configuration register and every write of a
\* configuration bit-field (averaged_measurements at bits 5-6, measurement_delay at
\* bits 7-9, mode at bits 10-11, soft reset at bit 1), the word written back differs
\* from the word just read only inside the target field, which holds the value
\* written, so a sibling field read afterwards returns its prior value.
C4_FieldWritePreservesSiblings ==
  /\ last.op = "set_averaged_measurements" =>
       OnlyFieldChanged(5, 2) /\ SiblingsKeep(5) /\ Inside(trace[2].val, 5, 2) = last.arg
  /\ last.op = "set_measurement_delay" =>
       OnlyFieldChanged(7, 3) /\ SiblingsKeep(7) /\ Inside(trace[2].val, 7, 3) = last.arg
  /\ last.op = "set_mode" =>
       OnlyFieldChanged(10, 2) /\ SiblingsKeep(10) /\ Inside(trace[2].val, 10, 2) = last.arg
  /\ last.op = "reset" =>
       OnlyFieldChanged(1, 1) /\ SiblingsKeep(1) /\ Inside(trace[2].val, 1, 1) = 1

\* over the word 0xFFFF the mode field was set to 0b01: 0xF7FF was written
C4_Witness ==
  /\ last.op = "set_mode"
  /\ last.arg = 1
  /\ trace[1].val = 65535
  /\ regs[_CONFIGURATION] = 63487

----------------------------------------------------------------------------
(* C10 *)

BothDone == \A c \in Callers : pc[c] = "done"

\* both callers read the register before either wrote it
Overlapped == Len(trace) >= 2 /\ trace[1].k = "read" /\ trace[2].k = "read"

FieldNow(c) == BitsGet(regs[_CONFIGURATION], FieldOf(c))
\* the field's value before either caller touched the register
FieldBefore(c) == BitsGet(trace[1].val, FieldOf(c))

\* C10: when two callers use one driver without serialization and each sets a
\* different configuration bit-field, the bus transactions of the two
\* read-modify-write sequences can interleave so that the register ends with the old
\* value of one of the two fields: if both read before either writes, the update of
\* the caller that writes first is lost, and otherwise both updates are kept.
C10_LostUpdate ==
  BothDone =>
    LET first == trace[3].by
        second == trace[4].by
    IN /\ Len(trace) = 4
       /\ FieldNow(second) = local[second].value
       /\ IF Overlapped
            THEN first # second /\ FieldNow(first) = FieldBefore(first)
            ELSE FieldNow(first) = local[first].value

\* both setters returned, and averaged_measurements still holds its old value 1
\* although caller A set it to 3
C10_Witness ==
  /\ BothDone
  /\ Overlapped
  /\ local["A"].value = 3
  /\ FieldBefore("A") = 1
  /\ FieldNow("A") = 1
  /\ FieldNow("B") = local["B"].value
  /\ FieldBefore("B") # local["B"].value

====
